---- MODULE Spec2Model ----
(***************************************************************************)
(* Verification model of the spectral-to-perceived-colour engine of the    *)
(* polyene spectrometer (interp1, integrateXYZ, xyzToLinearSRGB, compand,  *)
(* perceivedHex, wavelengthToSRGB / nmToColor, wavelengthToRGB).           *)
(*                                                                         *)
(* Numbers: the source computes in IEEE doubles.  The model computes in    *)
(* exact integer / rational arithmetic: a table value is an integer count  *)
(* of its last decimal place, a rational is a record [num, den], and the   *)
(* sums of integrateXYZ are arbitrary-precision naturals (sequences of     *)
(* base-10000 limbs, least significant first) because they exceed 32 bits. *)
(***************************************************************************)
EXTENDS Integers, Sequences, FiniteSets, TLC

(***************************************************************************)
(* Arbitrary-precision naturals.                                           *)
(***************************************************************************)
BigBase == 10000

RECURSIVE BigOf(_)
BigOf(n) == IF n = 0 THEN << >> ELSE <<n % BigBase>> \o BigOf(n \div BigBase)

RECURSIVE BigTrim(_)
BigTrim(a) ==
  IF a = << >> THEN a
  ELSE IF a[Len(a)] = 0 THEN BigTrim(SubSeq(a, 1, Len(a) - 1)) ELSE a

BigIsZero(a) == BigTrim(a) = << >>

BigLimb(a, k) == IF k <= Len(a) THEN a[k] ELSE 0

RECURSIVE BigAddFrom(_, _, _, _)
BigAddFrom(a, b, k, carry) ==
  IF k > Len(a) /\ k > Len(b)
  THEN (IF carry = 0 THEN << >> ELSE <<carry>>)
  ELSE LET s == BigLimb(a, k) + BigLimb(b, k) + carry
       IN  <<s % BigBase>> \o BigAddFrom(a, b, k + 1, s \div BigBase)

BigAdd(a, b) == BigAddFrom(a, b, 1, 0)

\* a * m for a machine integer 0 <= m <= 200000
RECURSIVE BigScaleFrom(_, _, _, _)
BigScaleFrom(a, m, k, carry) ==
  IF k > Len(a) THEN BigOf(carry)
  ELSE LET s == a[k] * m + carry
       IN  <<s % BigBase>> \o BigScaleFrom(a, m, k + 1, s \div BigBase)

BigScale(a, m) == BigTrim(BigScaleFrom(a, m, 1, 0))

\* a * BigBase^k
RECURSIVE BigShift(_, _)
BigShift(a, k) == IF k = 0 \/ a = << >> THEN a ELSE <<0>> \o BigShift(a, k - 1)

RECURSIVE BigMulFrom(_, _, _)
BigMulFrom(a, b, k) ==
  IF k > Len(b) THEN << >>
  ELSE BigAdd(BigShift(BigScale(a, b[k]), k - 1), BigMulFrom(a, b, k + 1))

BigMul(a, b) == BigTrim(BigMulFrom(a, b, 1))

\* compare from the most significant limb: -1, 0, 1
RECURSIVE BigCmpFrom(_, _, _)
BigCmpFrom(a, b, k) ==
  IF k = 0 THEN 0
  ELSE IF BigLimb(a, k) < BigLimb(b, k) THEN -1
  ELSE IF BigLimb(a, k) > BigLimb(b, k) THEN 1
  ELSE BigCmpFrom(a, b, k - 1)

BigCmp(a, b) == BigCmpFrom(a, b, IF Len(a) > Len(b) THEN Len(a) ELSE Len(b))

BigLeq(a, b) == BigCmp(a, b) <= 0

\* a - b for a >= b
RECURSIVE BigSubFrom(_, _, _, _)
BigSubFrom(a, b, k, borrow) ==
  IF k > Len(a) THEN << >>
  ELSE LET d == a[k] - BigLimb(b, k) - borrow
       IN  IF d < 0 THEN <<d + BigBase>> \o BigSubFrom(a, b, k + 1, 1)
           ELSE <<d>> \o BigSubFrom(a, b, k + 1, 0)

BigSub(a, b) == BigTrim(BigSubFrom(a, b, 1, 0))

BigSquare(a) == BigMul(a, a)

(***************************************************************************)
(* interp1: piecewise-linear lookup with edge clamping.                    *)
(* The result is the rational [num, den]; NaN stands for the value a read  *)
(* past the end of the table would produce.                                *)
(***************************************************************************)
NaN == [num |-> 0, den |-> 0]

\* the scan with <= in place of <
interpContinueInclusive(xArr, x, i) == i < Len(xArr) /\ xArr[i + 1] <= x

\* let i = 0; while (i < xArr.length - 1 && xArr[i + 1] < x) i++;
\* (1-based) the loop stops at the first i at which its condition is false
interpContinue(xArr, x, i) == i < Len(xArr) /\ xArr[i + 1] < x

interpIndex(xArr, x) ==
  CHOOSE i \in 1..Len(xArr) :
    /\ ~interpContinue(xArr, x, i)
    /\ \A j \in 1..(i - 1) : interpContinue(xArr, x, j)

interp1(xArr, yArr, x) ==
  IF x <= xArr[1] THEN [num |-> yArr[1], den |-> 1]
  ELSE IF x >= xArr[Len(xArr)] THEN [num |-> yArr[Len(yArr)], den |-> 1]
  ELSE LET i == interpIndex(xArr, x)
       IN  IF i + 1 > Len(xArr) THEN NaN
           ELSE LET x0 == xArr[i]
                    x1 == xArr[i + 1]
                    y0 == yArr[i]
                    y1 == yArr[i + 1]
                IN  \* y0 + ((x - x0) / (x1 - x0)) * (y1 - y0)
                    [num |-> y0 * (x1 - x0) + (x - x0) * (y1 - y0),
                     den |-> x1 - x0]

(***************************************************************************)
(* The same function in rounded arithmetic.  A number is a binary floating *)
(* point value with FloatBits significant bits (53 in the program), here a *)
(* rational whose denominator is a power of two; every operation rounds    *)
(* its exact result to the nearest such value, ties to the even            *)
(* significand.                                                            *)
(***************************************************************************)
FloatBits == 3

MaxExp == 12

RECURSIVE Pow2(_)
Pow2(k) == IF k = 0 THEN 1 ELSE 2 * Pow2(k - 1)

Abs(n) == IF n < 0 THEN 0 - n ELSE n

RoundHalfEven(n, d) ==
  LET q == n \div d
      r == n % d
  IN  IF 2 * r < d THEN q
      ELSE IF 2 * r > d THEN q + 1
      ELSE IF q % 2 = 0 THEN q ELSE q + 1

\* the exponent e with 2^(FloatBits-1) <= (n/d) / 2^e < 2^FloatBits
FlExponent(n, d) ==
  CHOOSE e \in (0 - MaxExp)..MaxExp :
    LET nn == IF e < 0 THEN n * Pow2(0 - e) ELSE n
        dd == IF e < 0 THEN d ELSE d * Pow2(e)
    IN  Pow2(FloatBits - 1) * dd <= nn /\ nn < Pow2(FloatBits) * dd

FlPos(n, d) ==
  LET e  == FlExponent(n, d)
      nn == IF e < 0 THEN n * Pow2(0 - e) ELSE n
      dd == IF e < 0 THEN d ELSE d * Pow2(e)
      m  == RoundHalfEven(nn, dd)
  IN  IF e < 0 THEN [num |-> m, den |-> Pow2(0 - e)]
      ELSE [num |-> m * Pow2(e), den |-> 1]

\* the nearest floating point value to the rational n/d (d > 0)
Fl(n, d) ==
  IF n = 0 THEN [num |-> 0, den |-> 1]
  ELSE IF n < 0 THEN [num |-> 0 - FlPos(0 - n, d).num, den |-> FlPos(0 - n, d).den]
  ELSE FlPos(n, d)

FlAdd(a, b) == Fl(a.num * b.den + b.num * a.den, a.den * b.den)

FlSub(a, b) == Fl(a.num * b.den - b.num * a.den, a.den * b.den)

FlMul(a, b) == Fl(a.num * b.num, a.den * b.den)

\* b > 0 wherever the function divides (x1 > x0)
FlDiv(a, b) == Fl(a.num * b.den, a.den * b.num)

FlOf(n) == [num |-> n, den |-> 1]

\* interp1 without the two edge branches
interp1RoundedUnclamped(xArr, yArr, x) ==
  LET i == interpIndex(xArr, x)
  IN  IF i + 1 > Len(xArr) THEN NaN
      ELSE LET t == FlDiv(FlSub(FlOf(x), FlOf(xArr[i])),
                          FlSub(FlOf(xArr[i + 1]), FlOf(xArr[i])))
           IN  FlAdd(FlOf(yArr[i]),
                     FlMul(t, FlSub(FlOf(yArr[i + 1]), FlOf(yArr[i]))))

interp1Rounded(xArr, yArr, x) ==
  IF x <= xArr[1] THEN FlOf(yArr[1])
  ELSE IF x >= xArr[Len(xArr)] THEN FlOf(yArr[Len(yArr)])
  ELSE LET i == interpIndex(xArr, x)
       IN  IF i + 1 > Len(xArr) THEN NaN
           ELSE LET x0 == FlOf(xArr[i])
                    x1 == FlOf(xArr[i + 1])
                    y0 == FlOf(yArr[i])
                    y1 == FlOf(yArr[i + 1])
                    \* const t = (x - x0) / (x1 - x0);
                    t  == FlDiv(FlSub(FlOf(x), x0), FlSub(x1, x0))
                IN  \* return y0 + t * (y1 - y0);
                    FlAdd(y0, FlMul(t, FlSub(y1, y0)))

(***************************************************************************)
(* Standard observer tables: CIE 1931 2-degree colour-matching functions   *)
(* and D65, 400-700 nm at 10 nm.  CMF entries count millionths, D65        *)
(* entries count hundredths.                                               *)
(***************************************************************************)
WL == [k \in 1..31 |-> 400 + (k - 1) * 10]

CMF_X ==
  <<14310, 43510, 134380, 283900, 348280, 336200, 290800, 195360, 95640,
    32010, 4900, 9300, 63270, 165500, 290400, 433450, 594500, 762100,
    916300, 1026300, 1062200, 1002600, 854450, 642400, 447900, 283500,
    164900, 87400, 46770, 22700, 11360>>

CMF_Y ==
  <<396, 1210, 4000, 11600, 23000, 38000, 60000, 90980, 139020, 208020,
    323000, 503000, 710000, 862000, 954000, 995000, 995000, 952000,
    870000, 757000, 631000, 503000, 381000, 265000, 175000, 107000, 61000,
    32000, 17000, 8200, 4100>>

CMF_Z ==
  <<67850, 207400, 645600, 1385600, 1747100, 1772100, 1669200, 1287600,
    813000, 465180, 272000, 158200, 78250, 42160, 20300, 8750, 3900, 2100,
    1650, 1100, 780, 570, 420, 300, 210, 150, 100, 50, 30, 15, 8>>

D65 ==
  <<8275, 9149, 9343, 8668, 10486, 11701, 11781, 11486, 11592, 10881,
    10935, 10780, 10479, 10769, 10441, 10405, 10000, 9633, 9579, 8869,
    9002, 8960, 8770, 8329, 8370, 8003, 8021, 8228, 7828, 6972, 7161>>

\* table step: every interp1 over WL at an integer nm has denominator 1 or 10
WLStep == WL[2] - WL[1]

\* numerator of an interp1 result over the common denominator WLStep
OverStep(q) == q.num * (WLStep \div q.den)

(***************************************************************************)
(* Transmittance T(nm) = 10^-(absorbance(nm)), the function argument of    *)
(* integrateXYZ.  The Gaussian and the power of ten are transcendental;    *)
(* the model draws the spectrum from named profiles, each giving T(nm) as  *)
(* a count of 1/TDen in 0..TDen.  "clear" is what peakAbsorbance = 0       *)
(* gives (10^-0 = 1 at every nm); "opaque" is the underflow of 10^-A to 0  *)
(* for a very large absorbance.                                            *)
(***************************************************************************)
TDen == 100

Profiles == {"clear", "opaque", "grey", "absorbRed", "absorbGreen", "absorbBlue"}

Transmittance(profile, w) ==
  CASE profile = "clear"       -> TDen
    [] profile = "opaque"      -> 0
    [] profile = "grey"        -> TDen \div 2
    [] profile = "absorbRed"   -> IF w >= 590 THEN 5 ELSE TDen
    [] profile = "absorbGreen" -> IF w >= 500 /\ w < 590 THEN 5 ELSE TDen
    [] profile = "absorbBlue"  -> IF w < 500 THEN 5 ELSE TDen

(***************************************************************************)
(* integrateXYZ: one loop iteration.  The accumulators count units of      *)
(* 1 / (100*WLStep * 1000000*WLStep * TDen); the Yw term s*ybar carries    *)
(* the factor TDen so that Yw is in the same unit as X, Y and Z.  (Xw and  *)
(* Zw are accumulated by the source and never read; they are not kept.)    *)
(***************************************************************************)
\* the loop body with the normaliser summing s * zbar
integrateStepWrongNormaliser(acc, w, profile) ==
  LET s    == OverStep(interp1(WL, D65, w))
      xbar == OverStep(interp1(WL, CMF_X, w))
      ybar == OverStep(interp1(WL, CMF_Y, w))
      zbar == OverStep(interp1(WL, CMF_Z, w))
      t    == Transmittance(profile, w)
  IN  [X  |-> BigAdd(acc.X,  BigScale(BigScale(BigOf(xbar), s), t)),
       Y  |-> BigAdd(acc.Y,  BigScale(BigScale(BigOf(ybar), s), t)),
       Z  |-> BigAdd(acc.Z,  BigScale(BigScale(BigOf(zbar), s), t)),
       Yw |-> BigAdd(acc.Yw, BigScale(BigScale(BigOf(zbar), s), TDen))]

integrateStep(acc, w, profile) ==
  LET s    == OverStep(interp1(WL, D65, w))
      xbar == OverStep(interp1(WL, CMF_X, w))
      ybar == OverStep(interp1(WL, CMF_Y, w))
      zbar == OverStep(interp1(WL, CMF_Z, w))
      t    == Transmittance(profile, w)
  IN  [X  |-> BigAdd(acc.X,  BigScale(BigScale(BigOf(xbar), s), t)),
       Y  |-> BigAdd(acc.Y,  BigScale(BigScale(BigOf(ybar), s), t)),
       Z  |-> BigAdd(acc.Z,  BigScale(BigScale(BigOf(zbar), s), t)),
       Yw |-> BigAdd(acc.Yw, BigScale(BigScale(BigOf(ybar), s), TDen))]

AccZero == [X |-> << >>, Y |-> << >>, Z |-> << >>, Yw |-> << >>]

\* the unit of an unscaled accumulator
AccDen == BigScale(BigScale(BigOf(100 * WLStep * WLStep), 1000000), TDen)

\* the return without the Yw > 0 guard
integrateReturnUnguarded(acc) ==
  [X |-> acc.X, Y |-> acc.Y, Z |-> acc.Z, den |-> acc.Yw, divided |-> TRUE]

\* if (Yw > 0) { const k = 1 / Yw; X *= k; Y *= k; Z *= k; }  return { X, Y, Z }
\* the result is X/den, Y/den, Z/den
integrateReturn(acc) ==
  IF ~BigIsZero(acc.Yw)
  THEN [X |-> acc.X, Y |-> acc.Y, Z |-> acc.Z, den |-> acc.Yw, divided |-> TRUE]
  ELSE [X |-> acc.X, Y |-> acc.Y, Z |-> acc.Z, den |-> AccDen, divided |-> FALSE]

(***************************************************************************)
(* xyzToLinearSRGB.  A channel is the signed rational (neg ? -num : num)   *)
(* over the shared denominator den.                                        *)
(***************************************************************************)
SignedDiff(pos, neg) ==
  IF BigLeq(neg, pos) THEN [neg |-> FALSE, num |-> BigSub(pos, neg)]
  ELSE [neg |-> TRUE, num |-> BigSub(neg, pos)]

xyzToLinearSRGB(t) ==
  [r   |-> SignedDiff(BigScale(t.X, 32406),
                      BigAdd(BigScale(t.Y, 15372), BigScale(t.Z, 4986))),
   g   |-> SignedDiff(BigAdd(BigScale(t.Y, 18758), BigScale(t.Z, 415)),
                      BigScale(t.X, 9689)),
   b   |-> SignedDiff(BigAdd(BigScale(t.X, 557), BigScale(t.Z, 10570)),
                      BigScale(t.Y, 2040)),
   den |-> BigScale(t.den, 10000)]

(***************************************************************************)
(* From here on a real number is a fixed-point count of 1/LinDen (a double *)
(* rounded down to three decimals).  FixMax is the largest count kept.      *)
(***************************************************************************)
LinDen == 1000

FixMax == 20000

\* largest q in lo..hi with q * d <= n   (lo * d <= n is given)
RECURSIVE BigQuot(_, _, _, _)
BigQuot(n, d, lo, hi) ==
  IF lo >= hi THEN lo
  ELSE LET mid == (lo + hi + 1) \div 2
       IN  IF BigLeq(BigScale(d, mid), n) THEN BigQuot(n, d, mid, hi)
           ELSE BigQuot(n, d, lo, mid - 1)

\* r = Math.max(0, r), as fixed point
clampLow(c, den) ==
  IF c.neg THEN 0 ELSE BigQuot(BigScale(c.num, LinDen), den, 0, FixMax)

Max2(a, b) == IF a >= b THEN a ELSE b
Min2(a, b) == IF a <= b THEN a ELSE b
Max3(a, b, c) == Max2(a, Max2(b, c))
Min3(a, b, c) == Min2(a, Min2(b, c))

\* d / 0 is Infinity in the source; s is only compared with 0.02 and capped
\* at 1, so any count above LinDen stands for it
SatInfinity == 100 * LinDen

toHsl(R, G, B) ==
  LET max == Max3(R, G, B)
      min == Min3(R, G, B)
      l   == (max + min) \div 2
      d   == max - min
  IN  IF d = 0 THEN [h |-> 0, s |-> 0, l |-> l]
      ELSE LET sden == IF max + min > LinDen THEN 2 * LinDen - max - min
                       ELSE max + min
               s == IF sden = 0 THEN SatInfinity
                    ELSE IF sden < 0 THEN 0 - ((d * LinDen) \div (0 - sden))
                    ELSE (d * LinDen) \div sden
               h6 == IF max = R
                     THEN ((G - B) * LinDen) \div d + (IF G < B THEN 6 * LinDen ELSE 0)
                     ELSE IF max = G THEN ((B - R) * LinDen) \div d + 2 * LinDen
                     ELSE ((R - G) * LinDen) \div d + 4 * LinDen
           IN  [h |-> h6 \div 6, s |-> s, l |-> l]

hue2rgb(p, q, t0) ==
  LET t1 == IF t0 < 0 THEN t0 + LinDen ELSE t0
      t  == IF t1 > LinDen THEN t1 - LinDen ELSE t1
  IN  IF 6 * t < LinDen THEN p + ((q - p) * 6 * t) \div LinDen
      ELSE IF 2 * t < LinDen THEN q
      ELSE IF 3 * t < 2 * LinDen
           THEN p + ((q - p) * (4 * LinDen - 6 * t)) \div LinDen
      ELSE p

fromHsl(h, s, l) ==
  IF s = 0 THEN [r |-> l, g |-> l, b |-> l]
  ELSE LET q == IF 2 * l < LinDen THEN (l * (LinDen + s)) \div LinDen
                ELSE l + s - (l * s) \div LinDen
           p == 2 * l - q
       IN  [r |-> hue2rgb(p, q, h + LinDen \div 3),
            g |-> hue2rgb(p, q, h),
            b |-> hue2rgb(p, q, h - LinDen \div 3)]

\* the saturation lift of perceivedHex:
\* if (hsl.s > 0.02) { s2 = min(1, s*1.25); l2 = max(0, min(1, l*0.98)); rgb = fromHsl(h, s2, l2) }
saturationLift(c) ==
  LET hsl == toHsl(c.r, c.g, c.b)
  IN  IF 50 * hsl.s > LinDen
      THEN LET s2 == Min2(LinDen, (hsl.s * 5) \div 4)
               l2 == Max2(0, Min2(LinDen, (hsl.l * 98) \div 100))
           IN  fromHsl(hsl.h, s2, l2)
      ELSE c

(***************************************************************************)
(* compand(v) = v <= 0.0031308 ? 12.92*v : 1.055*v^(1/2.4) - 0.055.        *)
(* v^(1/2.4) = (v^(1/12))^5 in fixed point: two square roots and a cube    *)
(* root, each rounded down, then four multiplications.                     *)
(***************************************************************************)
FixSqrt(v) ==
  CHOOSE y \in 0..(5 * LinDen) :
    y * y <= v * LinDen /\ (y + 1) * (y + 1) > v * LinDen

FixCbrt(v) ==
  CHOOSE y \in 0..((3 * LinDen) \div 2) :
    y * y * y <= v * LinDen * LinDen /\ (y + 1) * (y + 1) * (y + 1) > v * LinDen * LinDen

FixMul(a, b) == (a * b) \div LinDen

pow5over12(v) ==
  LET u  == FixCbrt(FixSqrt(FixSqrt(v)))
      u2 == FixMul(u, u)
  IN  FixMul(FixMul(u2, u2), u)

compand(v) ==
  IF v * (10000000 \div LinDen) <= 31308 THEN (1292 * v) \div 100
  ELSE (1055 * pow5over12(v)) \div 1000 - (55 * LinDen) \div 1000

(***************************************************************************)
(* toHex: Math.round(Math.min(255, Math.max(0, v*255))).toString(16)       *)
(*        .padStart(2, '0').  A string is a sequence of characters.        *)
(***************************************************************************)
\* Math.round(y) = floor(y + 1/2), y a count of 1/LinDen
Round(y) == (2 * y + LinDen) \div (2 * LinDen)

\* the byte without the clamp to 0..255
toByteUnclamped(v) == Round(v * 255)

toByte(v) == Round(Min2(255 * LinDen, Max2(0, v * 255)))

HexChars == <<"0", "1", "2", "3", "4", "5", "6", "7",
              "8", "9", "a", "b", "c", "d", "e", "f">>

RECURSIVE toString16(_)
toString16(n) ==
  IF n < 0 THEN <<"-">> \o toString16(0 - n)
  ELSE IF n < 16 THEN <<HexChars[n + 1]>>
  ELSE toString16(n \div 16) \o <<HexChars[(n % 16) + 1]>>

padStart2(str) == IF Len(str) < 2 THEN <<"0">> \o str ELSE str

toHex(v) == padStart2(toString16(toByte(v)))

(***************************************************************************)
(* Heuristic wavelength colorizers.  A base channel and the intensity      *)
(* factor are rationals [num, den] with den > 0.                           *)
(***************************************************************************)
Rat(n, d) == [num |-> n, den |-> d]

\* Math.round(255 * Math.pow(p/q, 0.8)) for 0 <= p/q, exactly:
\* the result is >= b  iff  b = 0 or ((2b-1)/510)^5 <= (p/q)^4
atLeast(b, p, q) ==
  \/ b <= 0
  \/ BigLeq(BigMul(BigMul(BigSquare(BigSquare(BigOf(2 * b - 1))), BigOf(2 * b - 1)),
                   BigSquare(BigSquare(BigOf(q)))),
            BigMul(BigMul(BigSquare(BigSquare(BigOf(510))), BigOf(510)),
                   BigSquare(BigSquare(BigOf(p)))))

\* the largest digit d in 0..15 with atLeast(from + d * unit, p, q)
topDigit(from, unit, p, q) ==
  CHOOSE d \in 0..15 :
    /\ atLeast(from + d * unit, p, q)
    /\ (d = 15 \/ ~atLeast(from + (d + 1) * unit, p, q))

round255pow08(p, q) ==
  LET d2 == topDigit(0, 256, p, q)
      d1 == topDigit(256 * d2, 16, p, q)
      d0 == topDigit(256 * d2 + 16 * d1, 1, p, q)
  IN  256 * d2 + 16 * d1 + d0

\* ---- wavelengthToSRGB / nmToColor (WavelengthColor) ----
\* which branch of the if / else-if chain sets the base channels (0: none)
srgbBand(w) ==
  IF w >= 380 /\ w < 440 THEN 1
  ELSE IF w >= 440 /\ w < 490 THEN 2
  ELSE IF w >= 490 /\ w < 510 THEN 3
  ELSE IF w >= 510 /\ w < 580 THEN 4
  ELSE IF w >= 580 /\ w < 645 THEN 5
  ELSE IF w >= 645 /\ w <= 780 THEN 6
  ELSE 0

\* the base channels with the sign of the first ramp lost
srgbBaseSignSlip(w) ==
  CASE srgbBand(w) = 1 -> [r |-> Rat(w - 440, 60), g |-> Rat(0, 1), b |-> Rat(1, 1)]
    [] srgbBand(w) = 2 -> [r |-> Rat(0, 1), g |-> Rat(w - 440, 50), b |-> Rat(1, 1)]
    [] srgbBand(w) = 3 -> [r |-> Rat(0, 1), g |-> Rat(1, 1), b |-> Rat(0 - (w - 510), 20)]
    [] srgbBand(w) = 4 -> [r |-> Rat(w - 510, 70), g |-> Rat(1, 1), b |-> Rat(0, 1)]
    [] srgbBand(w) = 5 -> [r |-> Rat(1, 1), g |-> Rat(0 - (w - 645), 65), b |-> Rat(0, 1)]
    [] srgbBand(w) = 6 -> [r |-> Rat(1, 1), g |-> Rat(0, 1), b |-> Rat(0, 1)]
    [] OTHER -> [r |-> Rat(0, 1), g |-> Rat(0, 1), b |-> Rat(0, 1)]

srgbBase(w) ==
  CASE srgbBand(w) = 1 -> [r |-> Rat(0 - (w - 440), 60), g |-> Rat(0, 1), b |-> Rat(1, 1)]
    [] srgbBand(w) = 2 -> [r |-> Rat(0, 1), g |-> Rat(w - 440, 50), b |-> Rat(1, 1)]
    [] srgbBand(w) = 3 -> [r |-> Rat(0, 1), g |-> Rat(1, 1), b |-> Rat(0 - (w - 510), 20)]
    [] srgbBand(w) = 4 -> [r |-> Rat(w - 510, 70), g |-> Rat(1, 1), b |-> Rat(0, 1)]
    [] srgbBand(w) = 5 -> [r |-> Rat(1, 1), g |-> Rat(0 - (w - 645), 65), b |-> Rat(0, 1)]
    [] srgbBand(w) = 6 -> [r |-> Rat(1, 1), g |-> Rat(0, 1), b |-> Rat(0, 1)]
    [] OTHER -> [r |-> Rat(0, 1), g |-> Rat(0, 1), b |-> Rat(0, 1)]

\* 0.3 + 0.7 * (w - 380) / 40 = (120 + 7 * (w - 380)) / 400
\* 0.3 + 0.7 * (780 - w) / 80 = (240 + 7 * (780 - w)) / 800
\* the intensity factor with the red ramp divided by the width of the violet one
srgbFactorShortRamp(w) ==
  IF w >= 380 /\ w < 420 THEN Rat(120 + 7 * (w - 380), 400)
  ELSE IF w >= 420 /\ w < 701 THEN Rat(1, 1)
  ELSE IF w >= 701 /\ w <= 780 THEN Rat(120 + 7 * (780 - w), 400)
  ELSE Rat(0, 1)

srgbFactor(w) ==
  IF w >= 380 /\ w < 420 THEN Rat(120 + 7 * (w - 380), 400)
  ELSE IF w >= 420 /\ w < 701 THEN Rat(1, 1)
  ELSE IF w >= 701 /\ w <= 780 THEN Rat(240 + 7 * (780 - w), 800)
  ELSE Rat(0, 1)

\* Math.round(255 * Math.pow(Math.max(0, c) * Math.max(0, factor), gamma))
srgbTo255(c, f) ==
  round255pow08(Max2(0, c.num) * Max2(0, f.num), c.den * f.den)

wavelengthToSRGB(w) ==
  [r |-> srgbTo255(srgbBase(w).r, srgbFactor(w)),
   g |-> srgbTo255(srgbBase(w).g, srgbFactor(w)),
   b |-> srgbTo255(srgbBase(w).b, srgbFactor(w))]

rgbToHex(c) ==
  <<"#">> \o padStart2(toString16(c.r)) \o padStart2(toString16(c.g))
         \o padStart2(toString16(c.b))

nmToColor(w) == rgbToHex(wavelengthToSRGB(w))

\* ---- wavelengthToRGB (spectrometer app) ----
FallbackGray == <<"#", "8", "8", "8", "8", "8", "8">>

\* the fallback test with the upper limit of the other colorizer
rgbFallsBackWide(w) == w < 380 \/ w > 780

rgbFallsBack(w) == w < 380 \/ w > 740

rgbBand(w) ==
  IF rgbFallsBack(w) THEN 0
  ELSE IF w >= 380 /\ w < 440 THEN 1
  ELSE IF w >= 440 /\ w < 490 THEN 2
  ELSE IF w >= 490 /\ w < 510 THEN 3
  ELSE IF w >= 510 /\ w < 580 THEN 4
  ELSE IF w >= 580 /\ w < 645 THEN 5
  ELSE IF w >= 645 /\ w <= 740 THEN 6
  ELSE 0

rgbBase(w) ==
  CASE rgbBand(w) = 1 -> [r |-> Rat(0 - (w - 440), 440 - 380), g |-> Rat(0, 1), b |-> Rat(1, 1)]
    [] rgbBand(w) = 2 -> [r |-> Rat(0, 1), g |-> Rat(w - 440, 490 - 440), b |-> Rat(1, 1)]
    [] rgbBand(w) = 3 -> [r |-> Rat(0, 1), g |-> Rat(1, 1), b |-> Rat(0 - (w - 510), 510 - 490)]
    [] rgbBand(w) = 4 -> [r |-> Rat(w - 510, 580 - 510), g |-> Rat(1, 1), b |-> Rat(0, 1)]
    [] rgbBand(w) = 5 -> [r |-> Rat(1, 1), g |-> Rat(0 - (w - 645), 645 - 580), b |-> Rat(0, 1)]
    [] rgbBand(w) = 6 -> [r |-> Rat(1, 1), g |-> Rat(0, 1), b |-> Rat(0, 1)]
    [] OTHER -> [r |-> Rat(0, 1), g |-> Rat(0, 1), b |-> Rat(0, 1)]

\* (w < 420) ? 0.3 + 0.7*(w - 380)/(420 - 380)
\*           : (w > 700) ? 0.3 + 0.7*(740 - w)/(740 - 700) : 1.0
rgbFactor(w) ==
  IF w < 420 THEN Rat(3 * (420 - 380) + 7 * (w - 380), 10 * (420 - 380))
  ELSE IF w > 700 THEN Rat(3 * (740 - 700) + 7 * (740 - w), 10 * (740 - 700))
  ELSE Rat(1, 1)

\* Math.round(255 * Math.pow(Math.max(0, Math.min(1, v * factor)), gamma))
rgbTo255(v, f) ==
  LET p == v.num * f.num
      q == v.den * f.den
  IN  IF p <= 0 THEN round255pow08(0, 1)
      ELSE IF p >= q THEN round255pow08(1, 1)
      ELSE round255pow08(p, q)

RECURSIVE toString10(_)
toString10(n) ==
  IF n < 0 THEN <<"-">> \o toString10(0 - n)
  ELSE IF n < 10 THEN <<HexChars[n + 1]>>
  ELSE toString10(n \div 10) \o <<HexChars[(n % 10) + 1]>>

\* `rgb(${to255(r)}, ${to255(g)}, ${to255(b)})`
wavelengthToRGB(w) ==
  IF rgbFallsBack(w) THEN FallbackGray
  ELSE <<"r", "g", "b", "(">> \o toString10(rgbTo255(rgbBase(w).r, rgbFactor(w)))
       \o <<",", " ">> \o toString10(rgbTo255(rgbBase(w).g, rgbFactor(w)))
       \o <<",", " ">> \o toString10(rgbTo255(rgbBase(w).b, rgbFactor(w)))
       \o <<")">>

(***************************************************************************)
(* State.                                                                  *)
(*   perceived colour (AbsorptionMini / AbsorptionSpectrum.perceivedHex):  *)
(*     visibleMin, visibleMax, profile  the props and the spectrum         *)
(*     pc         position in perceivedHex / integrateXYZ                  *)
(*     rangeMin, rangeMax, nm, acc      arguments and locals of the loop   *)
(*     samples    the wavelengths the loop body has run at, in order       *)
(*     xyz        what integrateXYZ returned                               *)
(*     lin        what xyzToLinearSRGB returned                            *)
(*     enc        the linear colour handed to compand                      *)
(*     bytes      the three integers whose digits are written              *)
(*     perceivedHex  the string returned                                   *)
(*   heuristic colorizer call:                                             *)
(*     colorizer  which function is called, wavelength its argument        *)
(*     cpc        "call" before, "done" after the call                     *)
(*     band, base, factor  the branch taken and the locals it set          *)
(*     color      the string returned                                      *)
(*   interp1 call:                                                         *)
(*     tabX, tabY, lookupX  the arguments xArr, yArr, x                    *)
(*     lpc        "call" before, "done" after the call                     *)
(*     lookupIndex   the local i (0 when an edge branch returned)          *)
(*     lookupResult  the value returned                                    *)
(***************************************************************************)
VARIABLES visibleMin, visibleMax, profile, pc, rangeMin, rangeMax, nm, acc,
          samples, xyz, lin, enc, bytes, perceivedHex,
          colorizer, wavelength, cpc, band, base, factor, color,
          tabX, tabY, lookupX, lpc, lookupIndex, lookupResult

perceivedVars == <<visibleMin, visibleMax, profile, pc, rangeMin, rangeMax, nm,
                   acc, samples, xyz, lin, enc, bytes, perceivedHex>>

heuristicVars == <<colorizer, wavelength, cpc, band, base, factor, color>>

interpVars == <<tabX, tabY, lookupX, lpc, lookupIndex, lookupResult>>

colourVars == <<perceivedVars, heuristicVars, interpVars>>

\* the Gaussian band of the absorption panels
VARIABLES fwhmNM, bandId, twoPeaks, offsetNM, spc, sigma, gauss

sigmaVars == <<fwhmNM, bandId, twoPeaks, offsetNM, spc, sigma, gauss>>

\* the orbital game: phases of the four sites, revealed levels, the level
\* unlocked last (0 for null), whether the unlock effect is still to run, and
\* the handler that ran last
VARIABLES phases, unlocked, recent, effectPending, lastOp

orbitalVars == <<phases, unlocked, recent, effectPending, lastOp>>

\* the beta-carotene explorer: the parsed bonds, the ids of the double
\* bonds, the selection, the undo history (oldest snapshot first), the POP
\* flag, whether its 700 ms timeout is pending, and the value of victory the
\* POP effect ran with last
VARIABLES edges, doubleIds, selected, history, popActive, popTimer, popVictory

\* kept beside the state of the explorer, for its properties: the selections
\* that preceded each toggle or effective reset not undone so far (oldest
\* first), how many of the latest of them an unbroken run of undos is due to
\* retrace, how many more snapshots this run pushes, and the handler that ran
\* last
VARIABLES pending, retrace, budget, lastCall

caroteneVars == <<edges, doubleIds, selected, history, popActive, popTimer,
                  popVictory, pending, retrace, budget, lastCall>>

\* a call of cullTicksBySpacing: its arguments, its locals out and lastX,
\* the positions in ticks of the ticks pushed to out, the position of the
\* tick the loop visits next, and where the call stands
VARIABLES ticks, toX, minDx, out, lastX, kept, tickIndex, kpc

cullVars == <<ticks, toX, minDx, out, lastX, kept, tickIndex, kpc>>

widgetVars == <<sigmaVars, orbitalVars, caroteneVars, cullVars>>

notSigmaVars == <<colourVars, orbitalVars, caroteneVars, cullVars>>

notOrbitalVars == <<colourVars, sigmaVars, caroteneVars, cullVars>>

notCaroteneVars == <<colourVars, sigmaVars, orbitalVars, cullVars>>

notCullVars == <<colourVars, sigmaVars, orbitalVars, caroteneVars>>

vars == <<colourVars, widgetVars>>

\* the value of a local that has not been assigned yet
None == [unset |-> TRUE]

VisibleMinInputs == {350, 400, 403, 550, 700, 720}
VisibleMaxInputs == {380, 400, 550, 700, 750}

\* the parts of the state a specification does not exercise
PerceivedIdle ==
  /\ visibleMin = 400
  /\ visibleMax = 700
  /\ profile = "clear"
  /\ pc = "idle"
  /\ rangeMin = 0
  /\ rangeMax = 0
  /\ nm = 0
  /\ acc = AccZero
  /\ samples = << >>
  /\ xyz = None
  /\ lin = None
  /\ enc = None
  /\ bytes = None
  /\ perceivedHex = << >>

HeuristicIdle ==
  /\ colorizer = "none"
  /\ wavelength = 0
  /\ cpc = "idle"
  /\ band = 0
  /\ base = None
  /\ factor = None
  /\ color = << >>

InterpIdle ==
  /\ tabX = <<0, 1>>
  /\ tabY = <<0, 0>>
  /\ lookupX = 0
  /\ lpc = "idle"
  /\ lookupIndex = 0
  /\ lookupResult = None

SigmaIdle ==
  /\ fwhmNM = FlOf(30)
  /\ bandId = "A"
  /\ twoPeaks = FALSE
  /\ offsetNM = 0
  /\ spc = "idle"
  /\ sigma = None
  /\ gauss = None

NoOp == [op |-> "none", idx |-> 0]

OrbitalIdle ==
  /\ phases = <<0, 0, 0, 0>>
  /\ unlocked = <<FALSE, FALSE, FALSE, FALSE>>
  /\ recent = 0
  /\ effectPending = FALSE
  /\ lastOp = NoOp

CaroteneIdle ==
  /\ edges = << >>
  /\ doubleIds = << >>
  /\ selected = {}
  /\ history = << >>
  /\ popActive = FALSE
  /\ popTimer = FALSE
  /\ popVictory = FALSE
  /\ pending = << >>
  /\ retrace = 0
  /\ budget = 0
  /\ lastCall = "none"

\* a number of the program that may also be NaN or an infinity
XNum(n) == [k |-> "finite", v |-> n]

XNaN == [k |-> "NaN", v |-> 0]

XPosInf == [k |-> "Infinity", v |-> 0]

XNegInf == [k |-> "-Infinity", v |-> 0]

CullIdle ==
  /\ ticks = << >>
  /\ toX = << >>
  /\ minDx = XNum(0)
  /\ out = << >>
  /\ lastX = XNegInf
  /\ kept = << >>
  /\ tickIndex = 0
  /\ kpc = "idle"

WidgetsIdle == SigmaIdle /\ OrbitalIdle /\ CaroteneIdle /\ CullIdle

InitPerceived ==
  /\ HeuristicIdle
  /\ InterpIdle
  /\ WidgetsIdle
  /\ visibleMin \in VisibleMinInputs
  /\ visibleMax \in VisibleMaxInputs
  /\ profile \in Profiles
  /\ pc = "start"
  /\ rangeMin = 0
  /\ rangeMax = 0
  /\ nm = 0
  /\ acc = AccZero
  /\ samples = << >>
  /\ xyz = None
  /\ lin = None
  /\ enc = None
  /\ bytes = None
  /\ perceivedHex = << >>

\* the call without the clamp to the observer domain
perceivedRangeUnclamped(vmin, vmax) == [lo |-> vmin, hi |-> vmax]

\* integrateXYZ(Math.max(visibleMin, 400), Math.min(visibleMax, 700), T)
perceivedRange(vmin, vmax) == [lo |-> Max2(vmin, 400), hi |-> Min2(vmax, 700)]

CallIntegrate ==
  /\ pc = "start"
  /\ rangeMin' = perceivedRange(visibleMin, visibleMax).lo
  /\ rangeMax' = perceivedRange(visibleMin, visibleMax).hi
  /\ nm' = perceivedRange(visibleMin, visibleMax).lo
  /\ acc' = AccZero
  /\ pc' = "loop"
  /\ UNCHANGED <<visibleMin, visibleMax, profile, samples, xyz, lin, enc, bytes,
                 perceivedHex>>
  /\ UNCHANGED <<heuristicVars, interpVars, widgetVars>>

\* the loop test with < in place of <=
loopContinuesStrict(w, hi) == w < hi

\* for (let nm = visibleMin; nm <= visibleMax; nm += step) { ... }
loopContinues(w, hi) == w <= hi

\* the increment with a finer step
nextSampleFine(w) == w + 2

\* const step = 5; ... nm += step
nextSample(w) == w + 5

IntegrateStep ==
  /\ pc = "loop"
  /\ loopContinues(nm, rangeMax)
  /\ acc' = integrateStep(acc, nm, profile)
  /\ samples' = Append(samples, nm)
  /\ nm' = nextSample(nm)
  /\ UNCHANGED <<visibleMin, visibleMax, profile, pc, rangeMin, rangeMax, xyz,
                 lin, enc, bytes, perceivedHex>>
  /\ UNCHANGED <<heuristicVars, interpVars, widgetVars>>

IntegrateReturn ==
  /\ pc = "loop"
  /\ ~loopContinues(nm, rangeMax)
  /\ xyz' = integrateReturn(acc)
  /\ pc' = "convert"
  /\ UNCHANGED <<visibleMin, visibleMax, profile, rangeMin, rangeMax, nm, acc,
                 samples, lin, enc, bytes, perceivedHex>>
  /\ UNCHANGED <<heuristicVars, interpVars, widgetVars>>

\* xyzToLinearSRGB, the clamp at 0 and the saturation lift
Convert ==
  /\ pc = "convert"
  /\ lin' = xyzToLinearSRGB(xyz)
  /\ enc' = LET m == xyzToLinearSRGB(xyz)
            IN  saturationLift([r |-> clampLow(m.r, m.den),
                                g |-> clampLow(m.g, m.den),
                                b |-> clampLow(m.b, m.den)])
  /\ pc' = "encode"
  /\ UNCHANGED <<visibleMin, visibleMax, profile, rangeMin, rangeMax, nm, acc,
                 samples, xyz, bytes, perceivedHex>>
  /\ UNCHANGED <<heuristicVars, interpVars, widgetVars>>

\* compand, toHex and the template string
Encode ==
  /\ pc = "encode"
  /\ bytes' = [r |-> toByte(compand(enc.r)),
               g |-> toByte(compand(enc.g)),
               b |-> toByte(compand(enc.b))]
  /\ perceivedHex' = <<"#">> \o toHex(compand(enc.r)) \o toHex(compand(enc.g))
                            \o toHex(compand(enc.b))
  /\ pc' = "done"
  /\ UNCHANGED <<visibleMin, visibleMax, profile, rangeMin, rangeMax, nm, acc,
                 samples, xyz, lin, enc>>
  /\ UNCHANGED <<heuristicVars, interpVars, widgetVars>>

NextPerceived ==
  \/ CallIntegrate
  \/ IntegrateStep
  \/ IntegrateReturn
  \/ Convert
  \/ Encode

SpecPerceived == InitPerceived /\ [][NextPerceived]_vars

\* the control flow of the steps above, without the values they compute
PerceivedControl ==
  \/ pc = "start" /\ pc' = "loop" /\ nm' = perceivedRange(visibleMin, visibleMax).lo
  \/ pc = "loop" /\ loopContinues(nm, rangeMax) /\ pc' = "loop" /\ nm' = nextSample(nm)
  \/ pc = "loop" /\ ~loopContinues(nm, rangeMax) /\ pc' = "convert" /\ nm' = nm
  \/ pc = "convert" /\ pc' = "encode" /\ nm' = nm
  \/ pc = "encode" /\ pc' = "done" /\ nm' = nm

\* the body of perceivedHex is straight-line code around one loop: once
\* called, it keeps taking its next step
FairSpecPerceived == SpecPerceived /\ WF_<<pc, nm>>(PerceivedControl)

(***************************************************************************)
(* A call of one of the heuristic colorizers with the argument wavelength. *)
(***************************************************************************)
MinNm == 360
MaxNm == 800

InitHeuristic ==
  /\ PerceivedIdle
  /\ InterpIdle
  /\ WidgetsIdle
  /\ colorizer \in {"nmToColor", "wavelengthToRGB"}
  /\ wavelength \in MinNm..MaxNm
  /\ cpc = "call"
  /\ band = 0
  /\ base = None
  /\ factor = None
  /\ color = << >>

NmToColor ==
  /\ cpc = "call"
  /\ colorizer = "nmToColor"
  /\ band' = srgbBand(wavelength)
  /\ base' = srgbBase(wavelength)
  /\ factor' = srgbFactor(wavelength)
  /\ color' = nmToColor(wavelength)
  /\ cpc' = "done"
  /\ UNCHANGED <<colorizer, wavelength, perceivedVars, interpVars, widgetVars>>

\* the early return leaves r, g, b and factor unset
WavelengthToRGB ==
  /\ cpc = "call"
  /\ colorizer = "wavelengthToRGB"
  /\ band' = rgbBand(wavelength)
  /\ base' = IF rgbFallsBack(wavelength) THEN None ELSE rgbBase(wavelength)
  /\ factor' = IF rgbFallsBack(wavelength) THEN None ELSE rgbFactor(wavelength)
  /\ color' = wavelengthToRGB(wavelength)
  /\ cpc' = "done"
  /\ UNCHANGED <<colorizer, wavelength, perceivedVars, interpVars, widgetVars>>

NextHeuristic ==
  \/ NmToColor
  \/ WavelengthToRGB

SpecHeuristic == InitHeuristic /\ [][NextHeuristic]_vars

(***************************************************************************)
(* A call of interp1 on a table with at least two strictly increasing      *)
(* sample points.                                                          *)
(***************************************************************************)
MaxLen == 3
MaxCoord == 4
\* sample values: 0, 1 and the least integer above 2^FloatBits that is itself
\* a floating point value (its difference from 1 is not)
TableValues == {0, 1, Pow2(FloatBits) + 2}

Tables(n) ==
  {t \in [1..n -> 0..MaxCoord] : \A k \in 1..(n - 1) : t[k] < t[k + 1]}

InitInterp ==
  /\ PerceivedIdle
  /\ HeuristicIdle
  /\ WidgetsIdle
  /\ \E n \in 2..MaxLen :
       /\ tabX \in Tables(n)
       /\ tabY \in [1..n -> TableValues]
  /\ lookupX \in (0 - 1)..(MaxCoord + 1)
  /\ lpc = "call"
  /\ lookupIndex = 0
  /\ lookupResult = None

Lookup ==
  /\ lpc = "call"
  /\ lookupResult' = interp1Rounded(tabX, tabY, lookupX)
  /\ lookupIndex' = IF lookupX <= tabX[1] \/ lookupX >= tabX[Len(tabX)] THEN 0
                    ELSE interpIndex(tabX, lookupX)
  /\ lpc' = "done"
  /\ UNCHANGED <<tabX, tabY, lookupX, perceivedVars, heuristicVars, widgetVars>>

NextInterp == Lookup

SpecInterp == InitInterp /\ [][NextInterp]_vars

(***************************************************************************)
(* The Gaussian band width.  Numbers are the floating point values above,  *)
(* here with gradual underflow: below 2^(FloatBits-1) units the values are *)
(* the multiples of the unit 2^-SubnormalBits, the least positive number.  *)
(***************************************************************************)
SubnormalBits == 4

FlUnderflow(n, d) ==
  IF Abs(n) * Pow2(SubnormalBits) < Pow2(FloatBits - 1) * d
    THEN [num |-> (IF n < 0 THEN 0 - 1 ELSE 1)
                    * RoundHalfEven(Abs(n) * Pow2(SubnormalBits), d),
          den |-> Pow2(SubnormalBits)]
    ELSE Fl(n, d)

\* 2 * Math.sqrt(2 * Math.log(2)) = 2.3548200450309493
TwoSqrtTwoLnTwo == Fl(23548, 10000)

\* fwhmNM > 0 ? fwhmNM / (2 * Math.sqrt(2 * Math.log(2))) : 1
sigmaA(fwhm) ==
  IF fwhm.num > 0
    THEN FlUnderflow(fwhm.num * TwoSqrtTwoLnTwo.den, fwhm.den * TwoSqrtTwoLnTwo.num)
    ELSE FlOf(1)

\* twoPeaks && fwhmB > 0 ? fwhmB / (2 * Math.sqrt(2 * Math.log(2))) : 1
sigmaB(two, fwhm) ==
  IF two /\ fwhm.num > 0
    THEN FlUnderflow(fwhm.num * TwoSqrtTwoLnTwo.den, fwhm.den * TwoSqrtTwoLnTwo.num)
    ELSE FlOf(1)

\* Math.exp(-0.5 * Math.pow((nm - centerNM) / sigma, 2)): the quotient is
\* NaN for 0/0 and infinite for x/0, and the exponential is then NaN or 0
g(offset, sig) ==
  IF sig.num = 0
    THEN IF offset = 0 THEN [z |-> "NaN", g |-> "NaN"]
         ELSE [z |-> "Infinity", g |-> "zero"]
    ELSE [z |-> "finite", g |-> IF offset = 0 THEN "one" ELSE "fraction"]

\* band widths: the least positive numbers, zero, negatives, and slider values
FwhmInputs ==
  {[num |-> k, den |-> Pow2(SubnormalBits)] : k \in (0 - 2)..Pow2(FloatBits)}
    \cup {FlOf(k) : k \in {8, 32, 40, 112}}

MaxOffset == 3

InitSigma ==
  /\ PerceivedIdle
  /\ HeuristicIdle
  /\ InterpIdle
  /\ OrbitalIdle
  /\ CaroteneIdle
  /\ CullIdle
  /\ fwhmNM \in FwhmInputs
  /\ bandId \in {"A", "B"}
  /\ twoPeaks \in BOOLEAN
  /\ offsetNM \in (0 - MaxOffset)..MaxOffset
  /\ spc = "render"
  /\ sigma = None
  /\ gauss = None

SigmaMemo ==
  /\ spc = "render"
  /\ sigma' = IF bandId = "A" THEN sigmaA(fwhmNM) ELSE sigmaB(twoPeaks, fwhmNM)
  /\ spc' = "sigma"
  /\ UNCHANGED <<fwhmNM, bandId, twoPeaks, offsetNM, gauss, notSigmaVars>>

\* gB is evaluated only when twoPeaks is set
Gaussian ==
  /\ spc = "sigma"
  /\ bandId = "A" \/ twoPeaks
  /\ gauss' = g(offsetNM, sigma)
  /\ spc' = "done"
  /\ UNCHANGED <<fwhmNM, bandId, twoPeaks, offsetNM, sigma, notSigmaVars>>

NextSigma ==
  \/ SigmaMemo
  \/ Gaussian

SpecSigma == InitSigma /\ [][NextSigma]_vars

(***************************************************************************)
(* The orbital game (OrbitalSplitting.tsx).  null is written 0: a level is *)
(* 1..4, so 0 is falsy exactly where null is.                              *)
(***************************************************************************)
N == 4

\* const CANON = new Map([[1, [1,1,1,1]], [2, [1,1,-1,-1]], ...])
CANON ==
  <<<<1, 1, 1, 1>>, <<1, 1, 0 - 1, 0 - 1>>, <<1, 0 - 1, 0 - 1, 1>>,
    <<1, 0 - 1, 1, 0 - 1>>>>

\* the comparison with some site agreeing up to its own sign
sameUpToSiteSign(a, b) ==
  \A i \in 1..Len(a) : a[i] = b[i] \/ a[i] = 0 - b[i]

\* a.every(v === b[i]) || a.every(v === -b[i])
sameUpToGlobalSign(a, b) ==
  \/ \A i \in 1..Len(a) : a[i] = b[i]
  \/ \A i \in 1..Len(a) : a[i] = 0 - b[i]

\* for (const [k, pat] of CANON) if (sameUpToGlobalSign(phases, pat)) return k;
\* the Map iterates in insertion order, so the first matching k is returned
firstMatch(ph) ==
  IF \E k \in 1..Len(CANON) : sameUpToGlobalSign(ph, CANON[k])
    THEN CHOOSE k \in 1..Len(CANON) :
           /\ sameUpToGlobalSign(ph, CANON[k])
           /\ \A j \in 1..(k - 1) : ~sameUpToGlobalSign(ph, CANON[j])
    ELSE 0

matchLevel(ph) ==
  IF \E i \in 1..Len(ph) : ph[i] = 0 THEN 0 ELSE firstMatch(ph)

\* the toggle that cycles unset, +1, -1
togglePhaseCycle(p) == IF p = 0 THEN 1 ELSE IF p = 1 THEN 0 - 1 ELSE 0

\* next[idx] = prev[idx] === 0 ? 1 : -prev[idx]
togglePhase(p) == IF p = 0 THEN 1 ELSE 0 - p

\* the effect that reveals the level without recording it as recent
unlockEffectSilent(k, un, rec) ==
  IF k # 0 /\ ~un[k]
    THEN [unlocked |-> [un EXCEPT ![k] = TRUE], recent |-> rec]
    ELSE [unlocked |-> un, recent |-> rec]

\* if (kMatch && !unlocked[kMatch - 1]) { setUnlocked(...); setRecent(kMatch); }
unlockEffect(k, un, rec) ==
  IF k # 0 /\ ~un[k]
    THEN [unlocked |-> [un EXCEPT ![k] = TRUE], recent |-> k]
    ELSE [unlocked |-> un, recent |-> rec]

InitOrbital ==
  /\ PerceivedIdle
  /\ HeuristicIdle
  /\ InterpIdle
  /\ SigmaIdle
  /\ CaroteneIdle
  /\ CullIdle
  /\ phases = <<0, 0, 0, 0>>
  /\ unlocked = <<FALSE, FALSE, FALSE, FALSE>>
  /\ recent = 0
  /\ effectPending = TRUE
  /\ lastOp = NoOp

\* a click is handled only after the effects of the previous render have run
ToggleSite(idx) ==
  /\ ~effectPending
  /\ phases' = [phases EXCEPT ![idx] = togglePhase(phases[idx])]
  /\ effectPending' = TRUE
  /\ lastOp' = [op |-> "toggleSite", idx |-> idx]
  /\ UNCHANGED <<unlocked, recent, notOrbitalVars>>

Reset ==
  /\ ~effectPending
  /\ phases' = <<0, 0, 0, 0>>
  /\ unlocked' = <<FALSE, FALSE, FALSE, FALSE>>
  /\ recent' = 0
  /\ effectPending' = TRUE
  /\ lastOp' = [op |-> "reset", idx |-> 0]
  /\ UNCHANGED notOrbitalVars

\* useEffect(..., [kMatch, unlocked]): runs after the render that follows a
\* state change, and once more after its own change of unlocked
UnlockEffect ==
  /\ effectPending
  /\ unlocked' = unlockEffect(matchLevel(phases), unlocked, recent).unlocked
  /\ recent' = unlockEffect(matchLevel(phases), unlocked, recent).recent
  /\ effectPending' = (unlocked' # unlocked)
  /\ lastOp' = [op |-> "effect", idx |-> 0]
  /\ UNCHANGED <<phases, notOrbitalVars>>

NextOrbital ==
  \/ \E idx \in 1..N : ToggleSite(idx)
  \/ Reset
  \/ UnlockEffect

SpecOrbital == InitOrbital /\ [][NextOrbital]_vars

(***************************************************************************)
(* The beta-carotene explorer (BetaCaroteneConjugation.tsx).               *)
(***************************************************************************)
\* the bond block of the embedded Molfile: first atom, second atom and bond
\* order of each of its 41 lines (atoms numbered from 1)
BETA_CAROTENE_MOL ==
  <<
    <<1, 2, 2>>, <<2, 3, 1>>, <<3, 4, 2>>, <<4, 5, 1>>, <<5, 6, 2>>, <<6, 7, 1>>,
    <<7, 8, 2>>, <<8, 9, 1>>, <<9, 10, 2>>, <<10, 11, 1>>, <<11, 12, 2>>, <<12, 13, 1>>,
    <<13, 14, 2>>, <<14, 15, 1>>, <<15, 16, 2>>, <<16, 17, 1>>, <<17, 18, 2>>, <<16, 19, 1>>,
    <<12, 20, 1>>, <<7, 21, 1>>, <<3, 22, 1>>, <<23, 24, 2>>, <<24, 25, 1>>, <<25, 26, 1>>,
    <<26, 27, 1>>, <<27, 28, 1>>, <<23, 28, 1>>, <<28, 29, 1>>, <<28, 30, 1>>, <<24, 31, 1>>,
    <<1, 23, 1>>, <<32, 33, 2>>, <<33, 34, 1>>, <<34, 35, 1>>, <<35, 36, 1>>, <<36, 37, 1>>,
    <<32, 37, 1>>, <<37, 38, 1>>, <<37, 39, 1>>, <<33, 40, 1>>, <<18, 32, 1>>
  >>

\* the bonds of parseMolV2000: atoms renumbered from 0, any order other
\* than 2 or 3 read as 1
parseMolV2000(mol) ==
  [i \in 1..Len(mol) |->
    [a |-> mol[i][1] - 1,
     b |-> mol[i][2] - 1,
     order |-> IF mol[i][3] = 2 THEN 2 ELSE IF mol[i][3] = 3 THEN 3 ELSE 1]]

\* the edges of the mount effect: the id of an edge is its index from 0
mountEdges(bonds) ==
  [i \in 1..Len(bonds) |->
    [id |-> i - 1, a |-> bonds[i].a, b |-> bonds[i].b, order |-> bonds[i].order]]

IsDouble(e) == e.order = 2

edgeIds(eds) == [i \in 1..Len(eds) |-> eds[i].id]

\* eds.filter(e => e.order === 2).map(e => e.id)
mountDoubles(eds) == edgeIds(SelectSeq(eds, IsDouble))

Range(s) == {s[i] : i \in 1..Len(s)}

expectedDoubles(ids) == Len(ids)

victoryAnyCount(sel, ids) == Cardinality(sel) = expectedDoubles(ids)

victory(sel, ids) ==
  Cardinality(sel) = expectedDoubles(ids) /\ expectedDoubles(ids) = 11

HistoryCap == 100

\* the history after pushHistory(prev): a snapshot holds the members of the
\* set, and new Set(snapshot) has these members again
pushHistory(h, prev) ==
  LET next == IF Len(h) > HistoryCap
                THEN SubSeq(h, Len(h) - HistoryCap + 1, Len(h))
                ELSE h
  IN  Append(next, prev)

toggleDouble(prev, id) == IF id \in prev THEN prev \ {id} ELSE prev \cup {id}

\* the bonds whose lines carry onClick and onKeyDown: every edge
clickTargetsAll(eds) == {eds[i].id : i \in 1..Len(eds)}

\* the bonds whose lines carry onClick and onKeyDown: the double bonds
clickTargets(eds) == {eds[i].id : i \in {j \in 1..Len(eds) : IsDouble(eds[j])}}

touches(eds, sel, atom) ==
  \E i \in 1..Len(eds) :
    /\ eds[i].order = 2
    /\ eds[i].id \in sel
    /\ (eds[i].a = atom \/ eds[i].b = atom)

singleHighlightedEitherEnd(eds, sel, e) ==
  /\ e.order = 1
  /\ (touches(eds, sel, e.a) \/ touches(eds, sel, e.b))

singleHighlighted(eds, sel, e) ==
  /\ e.order = 1
  /\ touches(eds, sel, e.a)
  /\ touches(eds, sel, e.b)

\* isActive of the render loop
isActive(eds, sel, e) ==
  IF IsDouble(e) THEN e.id \in sel ELSE singleHighlighted(eds, sel, e)

undoKeepsSnapshot(h, sel) ==
  IF Len(h) = 0
    THEN [history |-> h, selected |-> sel]
    ELSE [history |-> h, selected |-> h[Len(h)]]

\* the history and the selection after undo()
undo(h, sel) ==
  IF Len(h) = 0
    THEN [history |-> h, selected |-> sel]
    ELSE [history |-> SubSeq(h, 1, Len(h) - 1), selected |-> h[Len(h)]]

MaxHistory == 2

MaxLongPushes == 1

MolEdges == mountEdges(parseMolV2000(BETA_CAROTENE_MOL))

FirstDouble == mountDoubles(MolEdges)[1]

\* Selections the explorer can show with an empty history: the selection
\* left after more undos than the history holds is the oldest snapshot kept,
\* which is any set of double bonds selected 101 operations earlier.  The
\* nearly empty and the nearly full ones are enumerated.
InitSelections ==
  {S \in SUBSET Range(mountDoubles(MolEdges)) :
     Cardinality(S) <= 1 \/ Cardinality(S) >= Len(mountDoubles(MolEdges)) - 1}

\* One way to such a state: the bonds of T are toggled on in the order of
\* their ids, the first double bond is toggled 103 times, and Undo is pressed
\* 101 times.  The toggles that built T and the first two of the 103 are then
\* not undone, and their snapshots are no longer kept.
BuiltUp(T) ==
  [i \in 1..Cardinality(T) |->
     {id \in T : Cardinality({j \in T : j < id}) < i - 1}]
    \o <<T, toggleDouble(T, FirstDouble)>>

\* the history after the first double bond was toggled len times from mount
Flipped(len) == [i \in 1..len |-> IF i % 2 = 1 THEN {} ELSE {FirstDouble}]

\* runs that begin with the history at its cap and one past it
LongRuns == {HistoryCap, HistoryCap + 1}

\* the first render (nothing parsed yet), a mounted explorer whose history
\* was exhausted by undos, or one whose history is full; the POP effect has
\* still to see the selection
InitCarotene ==
  /\ PerceivedIdle
  /\ HeuristicIdle
  /\ InterpIdle
  /\ SigmaIdle
  /\ OrbitalIdle
  /\ CullIdle
  /\ popActive = FALSE
  /\ popTimer = FALSE
  /\ popVictory = FALSE
  /\ lastCall = "none"
  /\ \/ /\ edges = << >> /\ doubleIds = << >> /\ selected = {}
        /\ history = << >>
        /\ pending = << >>
        /\ retrace = 0
        /\ budget = MaxHistory
     \/ /\ edges = MolEdges
        /\ doubleIds = mountDoubles(MolEdges)
        /\ selected \in InitSelections
        /\ history = << >>
        /\ pending = BuiltUp(selected)
        /\ retrace = 0
        /\ budget = MaxHistory
     \/ /\ edges = MolEdges
        /\ doubleIds = mountDoubles(MolEdges)
        /\ \E len \in LongRuns :
             /\ history = Flipped(len)
             /\ selected = IF len % 2 = 0 THEN {} ELSE {FirstDouble}
             /\ retrace = Min2(len, HistoryCap)
        /\ pending = history
        /\ budget = MaxLongPushes

\* an event is handled only after the effects of the previous render have run
EffectsFlushed == victory(selected, doubleIds) = popVictory

\* useEffect(..., []) of the component
Mount ==
  /\ edges = << >>
  /\ edges' = MolEdges
  /\ doubleIds' = mountDoubles(MolEdges)
  /\ selected' = {}
  /\ history' = << >>
  /\ pending' = << >>
  /\ retrace' = 0
  /\ lastCall' = "mount"
  /\ UNCHANGED <<popActive, popTimer, popVictory, budget, notCaroteneVars>>

\* a toggle or an effective reset: one more operation to undo
Pushed ==
  /\ budget > 0
  /\ budget' = budget - 1
  /\ pending' = Append(pending, selected)
  /\ retrace' = Min2(retrace + 1, HistoryCap)

\* a click, Enter or space on the line of bond id
ToggleDouble(id) ==
  /\ EffectsFlushed
  /\ id \in clickTargets(edges)
  /\ Pushed
  /\ history' = pushHistory(history, selected)
  /\ selected' = toggleDouble(selected, id)
  /\ lastCall' = "toggleDouble"
  /\ UNCHANGED <<edges, doubleIds, popActive, popTimer, popVictory,
                 notCaroteneVars>>

ResetSelection ==
  /\ EffectsFlushed
  /\ IF Cardinality(selected) = 0
       THEN UNCHANGED <<selected, history, pending, retrace, budget>>
       ELSE /\ Pushed
            /\ history' = pushHistory(history, selected)
            /\ selected' = {}
  /\ lastCall' = "resetSelection"
  /\ UNCHANGED <<edges, doubleIds, popActive, popTimer, popVictory,
                 notCaroteneVars>>

\* the Undo button or Ctrl/Cmd+Z
Undo ==
  /\ EffectsFlushed
  /\ selected' = undo(history, selected).selected
  /\ history' = undo(history, selected).history
  /\ pending' = IF Len(history') < Len(history)
                  THEN SubSeq(pending, 1, Len(pending) - 1)
                  ELSE pending
  /\ retrace' = Max2(retrace - 1, 0)
  /\ lastCall' = "undo"
  /\ UNCHANGED <<edges, doubleIds, popActive, popTimer, popVictory, budget,
                 notCaroteneVars>>

\* useEffect(..., [victory]): the cleanup of the previous run clears its
\* timeout, then the effect runs with the new value of victory
PopEffect ==
  /\ ~EffectsFlushed
  /\ popVictory' = victory(selected, doubleIds)
  /\ IF victory(selected, doubleIds)
       THEN popActive' = TRUE /\ popTimer' = TRUE
       ELSE popActive' = popActive /\ popTimer' = FALSE
  /\ lastCall' = "popEffect"
  /\ UNCHANGED <<edges, doubleIds, selected, history, pending, retrace,
                 budget, notCaroteneVars>>

\* the timeout of the POP effect fires
PopTimeout ==
  /\ popTimer
  /\ popActive' = FALSE
  /\ popTimer' = FALSE
  /\ lastCall' = "popTimeout"
  /\ UNCHANGED <<edges, doubleIds, selected, history, popVictory, pending,
                 retrace, budget, notCaroteneVars>>

NextCarotene ==
  \/ Mount
  \/ \E id \in clickTargets(edges) : ToggleDouble(id)
  \/ ResetSelection
  \/ Undo
  \/ PopEffect
  \/ PopTimeout

SpecCarotene == InitCarotene /\ [][NextCarotene]_vars

\* React runs a pending effect, and a pending timeout fires
FairSpecCarotene ==
  /\ SpecCarotene
  /\ WF_vars(PopEffect)
  /\ WF_vars(PopTimeout)

(***************************************************************************)
(* Label culling (cullTicksBySpacing of HomoLumoAbsorption.tsx).           *)
(***************************************************************************)
\* a - b of two numbers
numSub(a, b) ==
  IF a.k = "NaN" \/ b.k = "NaN" THEN XNaN
  ELSE IF a.k = "finite" /\ b.k = "finite" THEN XNum(Fl(a.v - b.v, 1).num)
  ELSE IF a.k = "finite" THEN (IF b.k = "Infinity" THEN XNegInf ELSE XPosInf)
  ELSE IF b.k = "finite" THEN a
  ELSE IF a.k = b.k THEN XNaN
  ELSE a

\* a > b of two numbers: false when either is NaN
numGt(a, b) ==
  /\ a.k # "NaN"
  /\ b.k # "NaN"
  /\ \/ a.k = "Infinity" /\ b.k # "Infinity"
     \/ b.k = "-Infinity" /\ a.k # "-Infinity"
     \/ a.k = "finite" /\ b.k = "finite" /\ a.v > b.v

\* a >= b of two numbers: false when either is NaN
numGe(a, b) ==
  /\ a.k # "NaN"
  /\ b.k # "NaN"
  /\ \/ a.k = "Infinity"
     \/ b.k = "-Infinity"
     \/ a.k = "finite" /\ b.k = "finite" /\ a.v >= b.v

spacedStrictly(x, last, dx) == numGt(numSub(x, last), dx)

\* the test x - lastX >= minDx of the loop
spaced(x, last, dx) == numGe(numSub(x, last), dx)

MaxTicks == 3

TickValues == {400, 450, 500}

XValues == {XNaN, XNegInf, XPosInf, XNum(0), XNum(1), XNum(12)}

MinDxValues == {XNum(0), XNum(2), XNum(12), XNaN}

InitCull ==
  /\ PerceivedIdle
  /\ HeuristicIdle
  /\ InterpIdle
  /\ SigmaIdle
  /\ OrbitalIdle
  /\ CaroteneIdle
  /\ ticks \in UNION {[1..len -> TickValues] : len \in 0..MaxTicks}
  /\ toX \in [TickValues -> XValues]
  /\ minDx \in MinDxValues
  /\ out = << >>
  /\ lastX = XNegInf
  /\ kept = << >>
  /\ tickIndex = 1
  /\ kpc = "loop"

\* one pass of for (const t of ticks)
CullTick ==
  /\ kpc = "loop"
  /\ tickIndex <= Len(ticks)
  /\ LET t == ticks[tickIndex]
         x == toX[t]
     IN  IF spaced(x, lastX, minDx)
           THEN /\ out' = Append(out, t)
                /\ kept' = Append(kept, tickIndex)
                /\ lastX' = x
           ELSE UNCHANGED <<out, kept, lastX>>
  /\ tickIndex' = tickIndex + 1
  /\ UNCHANGED <<ticks, toX, minDx, kpc, notCullVars>>

CullReturn ==
  /\ kpc = "loop"
  /\ tickIndex > Len(ticks)
  /\ kpc' = "done"
  /\ UNCHANGED <<ticks, toX, minDx, out, lastX, kept, tickIndex, notCullVars>>

NextCull == CullTick \/ CullReturn

SpecCull == InitCull /\ [][NextCull]_vars

(***************************************************************************)
(* Properties.                                                             *)
(***************************************************************************)
Returned == {"convert", "encode", "done"}

RatEq(a, b) == a.den > 0 /\ b.den > 0 /\ a.num * b.den = b.num * a.den

\* C1: interp1 never fails and never extrapolates: for x <= xArr[first] it
\* returns yArr[first], for x >= xArr[last] it returns yArr[last].
InterpClampsAtEdges ==
  lpc = "done" =>
    /\ lookupResult.den > 0
    /\ lookupX <= tabX[1] => lookupResult.num = tabY[1] * lookupResult.den
    /\ lookupX >= tabX[Len(tabX)] =>
         lookupResult.num = tabY[Len(tabY)] * lookupResult.den

\* a lookup beyond the last sample of a table whose last segment is not flat
InterpClampedWitness ==
  /\ lpc = "done"
  /\ lookupX > tabX[Len(tabX)]
  /\ tabY[Len(tabY)] # tabY[Len(tabY) - 1]

\* the selected pair brackets x, and no other adjacent pair does
BracketIsUnique ==
  /\ lookupIndex \in 1..(Len(tabX) - 1)
  /\ tabX[lookupIndex] < lookupX
  /\ lookupX <= tabX[lookupIndex + 1]
  /\ \A j \in 1..(Len(tabX) - 1) :
       (tabX[j] < lookupX /\ lookupX <= tabX[j + 1]) => j = lookupIndex

Interior == lpc = "done" /\ tabX[1] < lookupX /\ lookupX < tabX[Len(tabX)]

\* C2 as stated: for x strictly inside the table, interp1 takes the unique
\* adjacent pair with x0 < x <= x1 and returns y0 + (y1-y0)*(x-x0)/(x1-x0);
\* when x equals a tabulated xArr[k] the result is exactly yArr[k].
InterpolatesExactly ==
  Interior =>
    /\ BracketIsUnique
    /\ \A k \in 1..Len(tabX) :
         lookupX = tabX[k] => RatEq(lookupResult, FlOf(tabY[k]))

\* C2 amended: for x strictly inside the table, interp1 takes the unique
\* adjacent pair with x0 < x <= x1 and returns the floating point value of
\* y0 + ((x-x0)/(x1-x0))*(y1-y0), which differs from the exact line by at
\* most 2^-FloatBits * (|y0| + 5*|y1-y0|).  When x equals a tabulated
\* xArr[k] the weight is exactly 1 and the result is y0 + (y1-y0) as rounded:
\* it is yArr[k] when y1-y0 and y0+(y1-y0) are floating point values, and
\* may differ from yArr[k] by the rounding otherwise.
InterpolatesWithinRounding ==
  Interior =>
    /\ BracketIsUnique
    /\ lookupResult.den > 0
    /\ LET y0    == tabY[lookupIndex]
           y1    == tabY[lookupIndex + 1]
           exact == interp1(tabX, tabY, lookupX)
       IN  /\ Abs(lookupResult.num * exact.den - exact.num * lookupResult.den)
                * Pow2(FloatBits)
                <= (Abs(y0) + 5 * Abs(y1 - y0)) * lookupResult.den * exact.den
           /\ lookupX = tabX[lookupIndex + 1] =>
                /\ lookupResult = FlAdd(FlOf(y0), FlSub(FlOf(y1), FlOf(y0)))
                /\ (RatEq(FlSub(FlOf(y1), FlOf(y0)), FlOf(y1 - y0))
                    /\ RatEq(FlAdd(FlOf(y0), FlOf(y1 - y0)), FlOf(y1))) =>
                     RatEq(lookupResult, FlOf(y1))

\* a lookup exactly at an interior sample that does not return its value
InterpInteriorWitness ==
  /\ Interior
  /\ lookupX = tabX[2]
  /\ ~RatEq(lookupResult, FlOf(tabY[2]))

\* C3: whatever visibleMin and visibleMax are, every wavelength the
\* integration loop samples lies in 400..700.
SamplesInsideObserverDomain ==
  \A k \in 1..Len(samples) : 400 <= samples[k] /\ samples[k] <= 700

\* a finished computation whose caller asked for a range wider on both sides
WiderRangeWitness ==
  /\ pc = "done"
  /\ visibleMin < 400
  /\ visibleMax > 700
  /\ Len(samples) > 0

\* C4: when the normaliser Yw is 0, integrateXYZ does not divide by it and
\* returns X = Y = Z = 0.
ZeroNormaliserGivesBlack ==
  (pc \in Returned /\ BigIsZero(acc.Yw)) =>
    /\ ~xyz.divided
    /\ BigIsZero(xyz.X)
    /\ BigIsZero(xyz.Y)
    /\ BigIsZero(xyz.Z)

\* a finished computation whose normaliser is 0
ZeroNormaliserWitness == pc = "done" /\ BigIsZero(acc.Yw)

\* C5 as stated: a zero-width range (rangeMin = rangeMax) gives Yw = 0 and
\* X = Y = Z = 0.
ZeroWidthRangeIsDegenerate ==
  (pc \in Returned /\ rangeMin = rangeMax) =>
    /\ BigIsZero(acc.Yw)
    /\ BigIsZero(xyz.X)
    /\ BigIsZero(xyz.Y)
    /\ BigIsZero(xyz.Z)

\* C5 amended: the degenerate input is the empty range (rangeMin > rangeMax):
\* no wavelength is sampled, Yw = 0 and X = Y = Z = 0.  A zero-width range
\* samples exactly the one wavelength rangeMin, so Yw > 0 and the sums are
\* divided by Yw.
EmptyRangeIsDegenerate ==
  pc \in Returned =>
    /\ rangeMin > rangeMax =>
         /\ samples = << >>
         /\ BigIsZero(acc.Yw)
         /\ ~xyz.divided
         /\ BigIsZero(xyz.X)
         /\ BigIsZero(xyz.Y)
         /\ BigIsZero(xyz.Z)
    /\ rangeMin = rangeMax =>
         /\ samples = <<rangeMin>>
         /\ ~BigIsZero(acc.Yw)
         /\ xyz.divided

\* a finished computation over a zero-width range
ZeroWidthWitness == pc = "done" /\ rangeMin = rangeMax

\* C6: for a non-absorbing spectrum the accumulated Y equals the normaliser
\* Yw, so over 400-700 the normalised Y is 1.
NonAbsorbingYEqualsYw ==
  profile = "clear" =>
    /\ pc \in {"loop"} \cup Returned => BigCmp(acc.Y, acc.Yw) = 0
    /\ (pc \in Returned /\ ~BigIsZero(acc.Yw)) =>
         /\ xyz.divided
         /\ BigCmp(xyz.Y, xyz.den) = 0

\* a finished non-absorbing computation over the whole of 400-700
NonAbsorbingWitness ==
  /\ pc = "done"
  /\ profile = "clear"
  /\ rangeMin = 400
  /\ rangeMax = 700
  /\ Len(samples) = 61

\* C7: every channel written into the perceived-colour string is an integer
\* in 0..255, also when the linear colour has components below 0 or above 1.
ChannelsAreBytes ==
  pc = "done" =>
    /\ bytes.r \in 0..255
    /\ bytes.g \in 0..255
    /\ bytes.b \in 0..255
    /\ perceivedHex = <<"#">> \o padStart2(toString16(bytes.r))
                             \o padStart2(toString16(bytes.g))
                             \o padStart2(toString16(bytes.b))

\* a finished computation whose linear colour had a negative red and a blue
\* above 1
OutOfGamutWitness ==
  /\ pc = "done"
  /\ lin.r.neg
  /\ ~lin.b.neg
  /\ BigCmp(lin.b.num, lin.den) > 0

HexDigits == {HexChars[k] : k \in 1..16}

IsHexColor(c) == Len(c) = 7 /\ c[1] = "#" /\ \A k \in 2..7 : c[k] \in HexDigits

\* C8: every colour handed to the view is '#' followed by exactly six
\* lowercase hex digits (here: every colour a heuristic colorizer returns).
HeuristicColorsAreHex == cpc = "done" => IsHexColor(color)

\* C9 as stated: for nm < 380 or nm > 740 the heuristic colorizer returns the
\* one neutral gray fallback, never a hue computed from the band table.
OutsideVisibleIsGray ==
  (cpc = "done" /\ (wavelength < 380 \/ wavelength > 740)) =>
    /\ band = 0
    /\ color = FallbackGray

\* C9 amended: wavelengthToRGB returns the gray #888888 for every nm < 380 or
\* nm > 740.  nmToColor (wavelengthToSRGB) has no gray: it returns #000000
\* for every nm < 380 or nm > 780, and for 740 < nm <= 780 the red of its
\* last band.
OutsideVisibleFallbacks ==
  cpc = "done" =>
    /\ (colorizer = "wavelengthToRGB" /\ (wavelength < 380 \/ wavelength > 740)) =>
         band = 0 /\ color = FallbackGray
    /\ (colorizer = "nmToColor" /\ (wavelength < 380 \/ wavelength > 780)) =>
         band = 0 /\ color = <<"#", "0", "0", "0", "0", "0", "0">>
    /\ (colorizer = "nmToColor" /\ wavelength > 740 /\ wavelength <= 780) =>
         /\ band = 6
         /\ color[2] # "0" \/ color[3] # "0"
         /\ SubSeq(color, 4, 7) = <<"0", "0", "0", "0">>

\* wavelengthToRGB called above 740 nm
GrayFallbackWitness ==
  /\ cpc = "done"
  /\ colorizer = "wavelengthToRGB"
  /\ wavelength > 740
  /\ wavelength <= 780

\* the band table of C10: band k covers ClaimedLow[k] <= nm < ClaimedLow[k+1],
\* the last one up to and including its end
ClaimedLow == <<380, 440, 490, 510, 580, 645>>

InClaimedBand(k, w, last) ==
  /\ ClaimedLow[k] <= w
  /\ IF k < 6 THEN w < ClaimedLow[k + 1] ELSE w <= last

ClaimedBase(k, w) ==
  CASE k = 1 -> [r |-> Rat(440 - w, 60), g |-> Rat(0, 1), b |-> Rat(1, 1)]
    [] k = 2 -> [r |-> Rat(0, 1), g |-> Rat(w - 440, 50), b |-> Rat(1, 1)]
    [] k = 3 -> [r |-> Rat(0, 1), g |-> Rat(1, 1), b |-> Rat(510 - w, 20)]
    [] k = 4 -> [r |-> Rat(w - 510, 70), g |-> Rat(1, 1), b |-> Rat(0, 1)]
    [] k = 5 -> [r |-> Rat(1, 1), g |-> Rat(645 - w, 65), b |-> Rat(0, 1)]
    [] k = 6 -> [r |-> Rat(1, 1), g |-> Rat(0, 1), b |-> Rat(0, 1)]

InUnit(q) == q.den > 0 /\ 0 <= q.num /\ q.num <= q.den

BandTableHolds(last) ==
  /\ Cardinality({k \in 1..6 : InClaimedBand(k, wavelength, last)}) = 1
  /\ band \in 1..6
  /\ InClaimedBand(band, wavelength, last)
  /\ RatEq(base.r, ClaimedBase(band, wavelength).r)
  /\ RatEq(base.g, ClaimedBase(band, wavelength).g)
  /\ RatEq(base.b, ClaimedBase(band, wavelength).b)
  /\ InUnit(base.r)
  /\ InUnit(base.g)
  /\ InUnit(base.b)

\* C10 as stated: for every nm in [380, 780] exactly one of the six bands
\* [380,440) [440,490) [490,510) [510,580) [580,645) [645,780] applies, the
\* base channels are the listed ramps, and every base channel is in [0, 1].
BandTableTo780 ==
  (cpc = "done" /\ 380 <= wavelength /\ wavelength <= 780) => BandTableHolds(780)

\* C10 amended: the statement holds for wavelengthToSRGB (nmToColor) on
\* [380, 780]; in wavelengthToRGB the last band is [645, 740] and the
\* statement holds on [380, 740].
BandTablePerColorizer ==
  cpc = "done" =>
    /\ (colorizer = "nmToColor" /\ 380 <= wavelength /\ wavelength <= 780) =>
         BandTableHolds(780)
    /\ (colorizer = "wavelengthToRGB" /\ 380 <= wavelength /\ wavelength <= 740) =>
         BandTableHolds(740)

\* nmToColor called in the part of the last band above 740 nm
LastBandWitness ==
  /\ cpc = "done"
  /\ colorizer = "nmToColor"
  /\ wavelength > 740
  /\ wavelength <= 780
  /\ band = 6

\* the factor of C11: 0.3 + 0.7*(nm-380)/40 below 420, 0.3 + 0.7*(780-nm)/80
\* from 700, 1 between
ClaimedFactor(w) ==
  IF w < 420 THEN Rat(120 + 7 * (w - 380), 400)
  ELSE IF w >= 700 THEN Rat(240 + 7 * (780 - w), 800)
  ELSE Rat(1, 1)

\* 0.3 <= q <= 1
InFactorRange(q) == q.den > 0 /\ 3 * q.den <= 10 * q.num /\ q.num <= q.den

\* the colorizer got as far as computing a factor
HasFactor == ~(colorizer = "wavelengthToRGB" /\ band = 0)

\* C11 as stated: the intensity factor of the heuristic colorizer is
\* 0.3 + 0.7*(nm-380)/40 on [380,420), 0.3 + 0.7*(780-nm)/80 on [700,780] and
\* 1 elsewhere in [420,700]; it is in [0.3, 1] inside 380-780.
FactorRampsTo780 ==
  (cpc = "done" /\ 380 <= wavelength /\ wavelength <= 780) =>
    /\ HasFactor
    /\ RatEq(factor, ClaimedFactor(wavelength))
    /\ InFactorRange(factor)

\* C11 amended: in wavelengthToSRGB the factor is 0.3 + 0.7*(nm-380)/40 on
\* [380,420), exactly 1 on [420,701) and 0.3 + 0.7*(780-nm)/80 on [701,780].
\* In wavelengthToRGB it is 0.3 + 0.7*(nm-380)/40 on [380,420), exactly 1 on
\* [420,700] and 0.3 + 0.7*(740-nm)/40 on (700,740]; above 740 that function
\* returns its fallback and computes no factor.  Each is in [0.3, 1] on the
\* range given.
FactorRampsPerColorizer ==
  cpc = "done" =>
    /\ (colorizer = "nmToColor" /\ 380 <= wavelength /\ wavelength <= 780) =>
         /\ InFactorRange(factor)
         /\ wavelength < 420 => RatEq(factor, Rat(120 + 7 * (wavelength - 380), 400))
         /\ (420 <= wavelength /\ wavelength < 701) => factor = Rat(1, 1)
         /\ wavelength >= 701 => RatEq(factor, Rat(240 + 7 * (780 - wavelength), 800))
    /\ (colorizer = "wavelengthToRGB" /\ 380 <= wavelength /\ wavelength <= 740) =>
         /\ HasFactor
         /\ InFactorRange(factor)
         /\ wavelength < 420 => RatEq(factor, Rat(120 + 7 * (wavelength - 380), 400))
         /\ (420 <= wavelength /\ wavelength <= 700) => factor = Rat(1, 1)
         /\ wavelength > 700 => RatEq(factor, Rat(120 + 7 * (740 - wavelength), 400))
    /\ (colorizer = "wavelengthToRGB" /\ wavelength > 740) => ~HasFactor

\* nmToColor called on its red ramp, where the factor is strictly between
\* 0.3 and 1
RedRampWitness ==
  /\ cpc = "done"
  /\ colorizer = "nmToColor"
  /\ wavelength > 701
  /\ wavelength < 780
  /\ factor.num < factor.den

\* C12: for every band width fwhm the sigma used by the Gaussian is strictly
\* positive, fwhm/(2*sqrt(2*ln 2)) when fwhm > 0 and the fallback 1 when
\* fwhm <= 0, so the Gaussian never divides by zero.
SigmaIsPositive ==
  spc = "done" =>
    /\ sigma.num > 0
    /\ fwhmNM.num <= 0 => sigma = FlOf(1)
    /\ gauss.z = "finite"

\* the linear colour of the matrix with negative channels clamped to 0
ClampedLinear ==
  [r |-> clampLow(lin.r, lin.den),
   g |-> clampLow(lin.g, lin.den),
   b |-> clampLow(lin.b, lin.den)]

\* C13: the saturation touch-up is separable: under some setting of the
\* computation the colour passed to companding is, for every spectrum, the
\* clamped linear sRGB of the matrix with no HSL adjustment.  The computation
\* takes no setting that reaches the touch-up, so this is the statement for
\* its one configuration, over every run that integrated a sample.
LiftIsSeparable ==
  (pc \in {"encode", "done"} /\ samples # << >>) => enc = ClampedLinear

\* the samples visited so far are rangeMin, rangeMin+5, ..., none above
\* rangeMax, at most 61; after the loop no further one fits below rangeMax
SamplesAreBounded ==
  /\ Len(samples) <= 61
  /\ \A k \in 1..Len(samples) :
       samples[k] = rangeMin + 5 * (k - 1) /\ samples[k] <= rangeMax
  /\ pc \in Returned => rangeMin + 5 * Len(samples) > rangeMax

\* C14: every perceived-colour computation terminates, and its loop visits
\* the samples rangeMin, rangeMin+5, ... up to rangeMax, at most 61 of them
\* whatever the spectrum and the requested range.
IntegrationTerminates == []SamplesAreBounded /\ <>(pc = "done")

\* a finished computation that was asked for more than the observer domain
\* and visited 61 samples
FullLoopWitness ==
  /\ pc = "done"
  /\ Len(samples) = 61
  /\ visibleMin < 400
  /\ visibleMax > 700
  /\ profile = "absorbGreen"

\* C15: the first toggle of a site takes it from 0 to +1, every later toggle
\* flips it between +1 and -1, a toggle changes no other site, and a site
\* that has been set goes back to 0 only by Reset.
ToggleNeverUnsets ==
  [][/\ lastOp'.op = "toggleSite" =>
          /\ phases[lastOp'.idx] = 0 => phases'[lastOp'.idx] = 1
          /\ phases[lastOp'.idx] # 0 =>
               /\ phases'[lastOp'.idx] = 0 - phases[lastOp'.idx]
               /\ phases'[lastOp'.idx] \in {1, 0 - 1}
          /\ \A j \in 1..N : j # lastOp'.idx => phases'[j] = phases[j]
     /\ (\E i \in 1..N : phases[i] # 0 /\ phases'[i] = 0) => lastOp'.op = "reset"
    ]_vars

\* a site was just toggled from +1 to -1 while another is still unset
SecondToggleWitness ==
  /\ lastOp.op = "toggleSite"
  /\ phases[lastOp.idx] = 0 - 1
  /\ \E j \in 1..N : phases[j] = 0

\* the patterns of C16: ++++, ++--, +--+, +-+-
ClaimedPatterns ==
  <<<<1, 1, 1, 1>>, <<1, 1, 0 - 1, 0 - 1>>, <<1, 0 - 1, 0 - 1, 1>>,
    <<1, 0 - 1, 1, 0 - 1>>>>

Negated(pat) == [i \in 1..Len(pat) |-> 0 - pat[i]]

MatchesClaimed(ph, k) ==
  /\ \A i \in 1..N : ph[i] # 0
  /\ ph = ClaimedPatterns[k] \/ ph = Negated(ClaimedPatterns[k])

\* C16: matchLevel returns k exactly when no site is 0 and the phases equal
\* pattern k or its sign-negated twin, null otherwise; no tuple matches two
\* levels.
MatchLevelIsCanonical ==
  /\ \A k \in 1..4 : matchLevel(phases) = k <=> MatchesClaimed(phases, k)
  /\ (\A k \in 1..4 : ~MatchesClaimed(phases, k)) <=> matchLevel(phases) = 0
  /\ Cardinality({k \in 1..4 : MatchesClaimed(phases, k)}) <= 1

\* the phases are the negated twin of pattern 3
NegatedTwinWitness ==
  /\ phases = <<0 - 1, 1, 1, 0 - 1>>
  /\ ~effectPending
  /\ unlocked[3]

\* C17: whenever a toggle leaves the phases matching level k, the unlock
\* effect runs before anything else and reveals level k; a newly revealed
\* level becomes recent; whatever toggles follow, the level stays revealed.
UnlockFollowsMatch ==
  /\ [](~effectPending /\ matchLevel(phases) # 0 => unlocked[matchLevel(phases)])
  /\ [][/\ effectPending => lastOp'.op = "effect"
        /\ (lastOp'.op = "effect" /\ matchLevel(phases) # 0
              /\ ~unlocked[matchLevel(phases)]) =>
             /\ unlocked'[matchLevel(phases)]
             /\ recent' = matchLevel(phases)
        /\ \A k \in 1..N :
             (unlocked[k] /\ lastOp'.op = "toggleSite") => unlocked'[k]
       ]_vars

\* level 3 was just unlocked after level 1 had been
SecondUnlockWitness ==
  /\ lastOp.op = "effect"
  /\ matchLevel(phases) = 3
  /\ unlocked[3]
  /\ unlocked[1]
  /\ recent = 3

(***************************************************************************)
(* C18: after any sequence of toggle, reset and undo operations in the     *)
(* beta-carotene explorer, the selection contains only ids of double       *)
(* bonds, and its size is at most the number of double bonds, which is 11. *)
(***************************************************************************)
SelectionIsDoubles ==
  /\ \A id \in selected :
       \E i \in 1..Len(edges) : edges[i].id = id /\ edges[i].order = 2
  /\ selected \subseteq Range(doubleIds)
  /\ Cardinality(selected) <= Len(doubleIds)
  /\ Cardinality(selected) <= 11

\* all eleven double bonds selected, the last of them by a toggle that
\* followed an earlier operation
FullSelectionWitness ==
  /\ Len(doubleIds) = 11
  /\ Cardinality(selected) = 11
  /\ Len(history) >= 2
  /\ Cardinality(history[Len(history)]) = 10

\* the end atoms of the double bonds that are selected
SelectedDoubleEnds ==
  UNION {{edges[i].a, edges[i].b} :
           i \in {j \in 1..Len(edges) :
                    edges[j].order = 2 /\ edges[j].id \in selected}}

(***************************************************************************)
(* C19: a single bond is highlighted exactly when each of its two end      *)
(* atoms is an end atom of some selected double bond, a double bond is     *)
(* highlighted exactly when it is selected, and with an empty selection no *)
(* bond is highlighted.                                                    *)
(***************************************************************************)
HighlightFollowsSelection ==
  /\ \A i \in 1..Len(edges) :
       /\ edges[i].order = 1 =>
            (isActive(edges, selected, edges[i])
               <=> /\ edges[i].a \in SelectedDoubleEnds
                   /\ edges[i].b \in SelectedDoubleEnds)
       /\ edges[i].order = 2 =>
            (isActive(edges, selected, edges[i]) <=> edges[i].id \in selected)
  /\ selected = {} =>
       \A i \in 1..Len(edges) : ~isActive(edges, selected, edges[i])

\* two selected double bonds with the single bond between them highlighted,
\* next to a single bond that only one selected double bond touches
BridgeWitness ==
  /\ Len(history) > 0
  /\ \E i \in 1..Len(edges) :
       /\ edges[i].order = 1
       /\ isActive(edges, selected, edges[i])
  /\ \E i \in 1..Len(edges) :
       /\ edges[i].order = 1
       /\ ~isActive(edges, selected, edges[i])
       /\ (edges[i].a \in SelectedDoubleEnds \/ edges[i].b \in SelectedDoubleEnds)

\* the ids of the double bonds of the embedded molecule
AllDoubles ==
  {MolEdges[i].id : i \in {j \in 1..Len(MolEdges) : MolEdges[j].order = 2}}

(***************************************************************************)
(* C20: in every reachable state victory holds exactly when the selection  *)
(* is the set of all 11 double bonds of the molecule, and deselecting any  *)
(* one of them clears it.                                                  *)
(***************************************************************************)
VictoryIsFullSelection ==
  /\ [](/\ Cardinality(AllDoubles) = 11
        /\ victory(selected, doubleIds) <=> selected = AllDoubles)
  /\ [][\A id \in AllDoubles :
          (victory(selected, doubleIds) /\ selected' = selected \ {id})
            => ~victory(selected', doubleIds')]_vars

\* the state right after one bond of a full selection was toggled off
DeselectedWitness ==
  /\ Len(history) > 0
  /\ victory(history[Len(history)], doubleIds)
  /\ Cardinality(selected) = 10
  /\ ~victory(selected, doubleIds)
  /\ popVictory

\* the handler that ran in this step was undo
UndoStep == lastCall' = "undo"

\* the snapshots kept are the latest of the operations not undone so far
HistoryIsLatestPending ==
  /\ Len(history) <= Len(pending)
  /\ history = SubSeq(pending, Len(pending) - Len(history) + 1, Len(pending))

(***************************************************************************)
(* C21 as stated: every undo restores the selection to the set it was      *)
(* immediately before the most recent toggle or effective reset that is    *)
(* not undone yet.                                                         *)
(***************************************************************************)
UndoAlwaysRestores ==
  [][(UndoStep /\ pending # << >>) => selected' = pending[Len(pending)]]_vars

(***************************************************************************)
(* C21, amended: while the history holds a snapshot, undo restores the     *)
(* selection to the set it was immediately before the most recent toggle   *)
(* or effective reset not undone yet, and drops that snapshot; the history *)
(* always holds the snapshots of the latest operations not undone, at      *)
(* least as many as the latest run of up to 100 operations has left to     *)
(* retrace, so that n operations followed by n undos (n <= 100) return the *)
(* selection to its starting value; undo with an empty history changes     *)
(* neither the selection nor the history.                                  *)
(***************************************************************************)
UndoRestoresWhileKept ==
  /\ [](HistoryIsLatestPending /\ Len(history) >= retrace)
  /\ [][UndoStep =>
          IF Len(history) = 0
            THEN selected' = selected /\ history' = history
            ELSE /\ selected' = pending[Len(pending)]
                 /\ pending' = SubSeq(pending, 1, Len(pending) - 1)
                 /\ Len(history') = Len(history) - 1]_vars

\* an undo has just stepped back from a history that had dropped its oldest
\* snapshot at the cap
UndoAtCapWitness ==
  /\ lastCall = "undo"
  /\ Len(history) = HistoryCap
  /\ Len(pending) = HistoryCap + 1
  /\ retrace = HistoryCap - 1

(***************************************************************************)
(* C22: the POP animation is temporary: whenever popActive becomes true it *)
(* eventually becomes false again, for every interleaving of the 700 ms    *)
(* timer with toggles, resets and undos, including those that end the      *)
(* victory before the timer fires.                                         *)
(***************************************************************************)
PopIsTemporary == popActive ~> ~popActive

\* the victory was ended before the timeout fired: the cleanup of the effect
\* has cleared the timeout and nothing is left to lower the flag
PopStuck ==
  /\ popActive
  /\ ~popTimer
  /\ ~popVictory
  /\ ~victory(selected, doubleIds)

\* the mapped x of the tick at position i
TickX(i) == toX[ticks[i]]

WasKept(i) == \E j \in 1..Len(kept) : kept[j] = i

\* the x of the last tick kept before position i, -Infinity when there is none
LastKeptX(i) ==
  IF \E j \in 1..(i - 1) : WasKept(j)
    THEN TickX(CHOOSE j \in 1..(i - 1) :
                 WasKept(j) /\ \A m \in (j + 1)..(i - 1) : ~WasKept(m))
    ELSE XNegInf

\* the difference x - last, as the program computes it, is a number that is
\* at least dx
AtLeastBeyond(x, last, dx) ==
  LET d == numSub(x, last)
  IN  /\ d.k # "NaN"
      /\ dx.k # "NaN"
      /\ (d.k = "Infinity" \/ dx.k = "-Infinity" \/
          (d.k = "finite" /\ dx.k = "finite" /\ ~(d.v < dx.v)))

\* out holds the ticks at the kept positions, which increase
IsSubsequence ==
  /\ Len(out) = Len(kept)
  /\ \A j \in 1..Len(kept) : kept[j] \in 1..Len(ticks) /\ out[j] = ticks[kept[j]]
  /\ \A j \in 1..(Len(kept) - 1) : kept[j] < kept[j + 1]

ConsecutiveKeptAreApart ==
  \A j \in 1..(Len(kept) - 1) :
    AtLeastBeyond(TickX(kept[j + 1]), TickX(kept[j]), minDx)

\* two neighbouring ticks closer than minDx
Crowded ==
  \E i \in 1..(Len(ticks) - 1) : ~AtLeastBeyond(TickX(i + 1), TickX(i), minDx)

FirstTickDroppedWitness ==
  /\ kpc = "done"
  /\ Len(ticks) > 1
  /\ TickX(1) = XNaN
  /\ ~WasKept(1)
  /\ Len(out) > 0

====
